---------------------------- MODULE Spec2Model ----------------------------
(***************************************************************************)
(* A model of find_all_untranslated.py: the walk of the EarthLord tree,    *)
(* the line-by-line search for hard-coded Chinese strings in UI calls, and *)
(* the grouped report printed from the list of issues.                     *)
(*                                                                         *)
(* A Python str is modelled as the sequence of its characters, each a      *)
(* one-character string; a character outside ASCII is written by its code  *)
(* point ("U+4F60").  The string methods and the regular expression are    *)
(* operators on such sequences.  What the file system answers (a directory *)
(* listing, the next line of a file, an error) is chosen when the program  *)
(* asks for it.                                                            *)
(***************************************************************************)
EXTENDS Naturals, Sequences, FiniteSets

VARIABLES pc, stack, root, dirs, files, skipped, nlisted,
          file_path, line_num, content,
          issues, by_file, out

vars == <<pc, stack, root, dirs, files, skipped, nlisted,
          file_path, line_num, content,
          issues, by_file, out>>

-----------------------------------------------------------------------------
(* Bounds of the model.                                                    *)

\* Directory levels below the root that a listing may still hold subdirectories at.
MaxDepth == 1
\* Files listed in the whole tree.
MaxFiles == 2
\* Lines read from one file.
MaxLines == 2
\* Fragments a line of the line-level specification is made of.
MaxFrags == 4

-----------------------------------------------------------------------------
(* Characters and the str methods the program uses.                        *)

Ascii == <<" ", "!", "\"", "#", "$", "%", "&", "'", "(", ")", "*", "+", ",", "-", ".", "/",
           "0", "1", "2", "3", "4", "5", "6", "7", "8", "9", ":", ";", "<", "=", ">", "?",
           "@", "A", "B", "C", "D", "E", "F", "G", "H", "I", "J", "K", "L", "M", "N", "O",
           "P", "Q", "R", "S", "T", "U", "V", "W", "X", "Y", "Z", "[", "\\", "]", "^", "_",
           "U+0060", "a", "b", "c", "d", "e", "f", "g", "h", "i", "j", "k", "l", "m", "n", "o",
           "p", "q", "r", "s", "t", "u", "v", "w", "x", "y", "z", "{", "|", "}", "~">>

\* The code point of a character (Python compares and classifies str by code point).
Ord(c) ==
    CASE c = "\t" -> 9
      [] c = "\n" -> 10
      [] c = "\r" -> 13
      [] c = "U+3042" -> 12354
      [] c = "U+4F60" -> 20320
      [] c = "U+597D" -> 22909
      [] OTHER -> 31 + (CHOOSE i \in 1..Len(Ascii) : Ascii[i] = c)

\* The ends of the range [\u4e00-\u9fff] of chinese_pattern.
CJK_LO == 19968
CJK_HI == 40959

IsCJK(c) == Ord(c) >= CJK_LO /\ Ord(c) <= CJK_HI

\* The white space of str.strip() and of \s.
IsSpace(c) == c \in {" ", "\t", "\n", "\r"}

RECURSIVE lstrip(_)
lstrip(s) == IF s # <<>> /\ IsSpace(Head(s)) THEN lstrip(Tail(s)) ELSE s

RECURSIVE rstrip(_)
rstrip(s) ==
    IF s # <<>> /\ IsSpace(s[Len(s)]) THEN rstrip(SubSeq(s, 1, Len(s) - 1)) ELSE s

\* str.strip()
strip(s) == rstrip(lstrip(s))

\* s[i:].startswith(p), for a 1-based i
HasPrefixAt(s, i, p) ==
    /\ i + Len(p) - 1 <= Len(s)
    /\ \A k \in 1..Len(p) : s[i + k - 1] = p[k]

\* s.startswith(p)
startswith(s, p) == HasPrefixAt(s, 1, p)

\* s.endswith(p)
endswith(s, p) == Len(p) <= Len(s) /\ HasPrefixAt(s, Len(s) - Len(p) + 1, p)

\* sub in s
contains(s, sub) == \E i \in 1..(Len(s) + 1) : HasPrefixAt(s, i, sub)

\* s.replace(old, new): every occurrence of old, found left to right without
\* overlap, is replaced; old is not empty.
RECURSIVE replace(_, _, _)
replace(s, old, new) ==
    IF s = <<>> THEN <<>>
    ELSE IF HasPrefixAt(s, 1, old)
         THEN new \o replace(SubSeq(s, Len(old) + 1, Len(s)), old, new)
         ELSE <<Head(s)>> \o replace(Tail(s), old, new)

\* a < b for two str: the order sorted() puts the report's keys in.
RECURSIVE StrLess(_, _)
StrLess(a, b) ==
    IF b = <<>> THEN FALSE
    ELSE IF a = <<>> THEN TRUE
    ELSE IF Head(a) = Head(b) THEN StrLess(Tail(a), Tail(b))
    ELSE Ord(Head(a)) < Ord(Head(b))

\* os.path.join(a, b) for a relative b
join(a, b) == a \o <<"/">> \o b

-----------------------------------------------------------------------------
(* The program's literals.                                                 *)

\* 'EarthLord', the directory os.walk starts from
Top == <<"E", "a", "r", "t", "h", "L", "o", "r", "d">>
\* 'EarthLord/', what the report removes from a path
TopPrefix == <<"E", "a", "r", "t", "h", "L", "o", "r", "d", "/">>
\* '.'
Dot == <<".">>
\* 'Pods'
Pods == <<"P", "o", "d", "s">>
\* '.swift'
SwiftExt == <<".", "s", "w", "i", "f", "t">>
\* '//'
CommentMarker == <<"/", "/">>
\* 'NSLocalizedString'
NSLocalizedString ==
    <<"N", "S", "L", "o", "c", "a", "l", "i", "z", "e", "d", "S", "t", "r", "i", "n", "g">>

\* The alternatives of the first group of chinese_pattern, in the order the
\* pattern lists them (the order the regex engine tries them in).
ComponentNames ==
    << <<"T", "e", "x", "t">>,
       <<"L", "a", "b", "e", "l">>,
       <<"B", "u", "t", "t", "o", "n">>,
       <<"T", "e", "x", "t", "F", "i", "e", "l", "d">>,
       <<"n", "a", "v", "i", "g", "a", "t", "i", "o", "n", "T", "i", "t", "l", "e">>,
       <<"P", "r", "o", "g", "r", "e", "s", "s", "V", "i", "e", "w">>,
       <<"S", "e", "c", "t", "i", "o", "n">> >>

-----------------------------------------------------------------------------
(* chinese_pattern: one of the component names, white space, an opening    *)
(* parenthesis, white space, a double quote, then the captured text (any   *)
(* characters but a double quote, with at least one in U+4E00..U+9FFF) and *)
(* a closing double quote.                                                 *)

\* \s* from position p: the position of the first character that is not white
\* space (Len(s) + 1 when there is none).  What follows \s* in the pattern is
\* never white space, so no shorter run of \s* can match where the longest fails.
RECURSIVE SkipSpaces(_, _)
SkipSpaces(s, p) ==
    IF p <= Len(s) /\ IsSpace(s[p]) THEN SkipSpaces(s, p + 1) ELSE p

\* [^"]* from position p: the position of the first '"' (Len(s) + 1 when there
\* is none).  The second group holds no '"' and is followed by one, so it ends there.
RECURSIVE NextQuote(_, _)
NextQuote(s, p) ==
    IF p <= Len(s) /\ s[p] # "\"" THEN NextQuote(s, p + 1) ELSE p

\* The match of the pattern at position i with the k-th alternative as the
\* first group: <<TRUE, component, text, position of the closing quote>>, or
\* <<FALSE>> when there is none.
MatchWith(s, i, k) ==
    LET c  == ComponentNames[k]
        p2 == SkipSpaces(s, i + Len(c))
        p3 == SkipSpaces(s, p2 + 1)
        e  == NextQuote(s, p3 + 1)
    IN  IF /\ HasPrefixAt(s, i, c)
           /\ p2 <= Len(s) /\ s[p2] = "("
           /\ p3 <= Len(s) /\ s[p3] = "\""
           /\ e <= Len(s)
           /\ \E j \in (p3 + 1)..(e - 1) : IsCJK(s[j])
        THEN <<TRUE, c, SubSeq(s, p3 + 1, e - 1), e>>
        ELSE <<FALSE>>

\* The alternatives are tried in order; the first that leads to a match wins.
RECURSIVE MatchFrom(_, _, _)
MatchFrom(s, i, k) ==
    IF k > Len(ComponentNames) THEN <<FALSE>>
    ELSE IF MatchWith(s, i, k)[1] THEN MatchWith(s, i, k)
    ELSE MatchFrom(s, i, k + 1)

\* The match of chinese_pattern that starts at position i
MatchAt(s, i) == MatchFrom(s, i, 1)

\* chinese_pattern.findall(line) from position pos on: the leftmost match, then
\* the search goes on after its last character.  With two groups findall gives
\* the pairs (component, text).
RECURSIVE FindFrom(_, _)
FindFrom(s, pos) ==
    IF pos > Len(s) THEN <<>>
    ELSE LET m == MatchAt(s, pos)
         IN  IF m[1] THEN << <<m[2], m[3]>> >> \o FindFrom(s, m[4] + 1)
             ELSE FindFrom(s, pos + 1)

\* A variant of findall that stops at the first match, as re.search would
findallFirst(line) ==
    IF FindFrom(line, 1) = <<>> THEN <<>> ELSE <<Head(FindFrom(line, 1))>>

findall(line) == FindFrom(line, 1)

-----------------------------------------------------------------------------
(* The body of the loop over the lines of a file.                          *)

\* A variant of IsCommentLine that leaves the strip() out
IsCommentLineRaw(line) == startswith(line, CommentMarker)

\* line.strip().startswith('//')
IsCommentLine(line) == startswith(strip(line), CommentMarker)

\* A variant of NotLocalized that looks for the marker at the start of the
\* trimmed line only
NotLocalizedAtStart(line) == ~startswith(strip(line), NSLocalizedString)

\* 'NSLocalizedString' not in line
NotLocalized(line) == ~contains(line, NSLocalizedString)

\* A variant of Issue with the line counted from 0, as enumerate(f) would
IssueZeroBased(path, num, match, line) ==
    [file |-> path, line |-> num - 1, component |-> match[1], text |-> match[2],
     full_line |-> strip(line)]

\* The dict appended for one match
Issue(path, num, match, line) ==
    [file |-> path, line |-> num, component |-> match[1], text |-> match[2],
     full_line |-> strip(line)]

\* What one line adds to issues: nothing for a comment line or a line that holds
\* NSLocalizedString, else one dict for each match of findall, in its order.
LineIssues(path, num, line) ==
    IF IsCommentLine(line) THEN <<>>
    ELSE IF NotLocalized(line)
         THEN LET matches == findall(line)
              IN  [k \in 1..Len(matches) |-> Issue(path, num, matches[k], line)]
         ELSE <<>>

-----------------------------------------------------------------------------
(* What the file system may answer.                                        *)

\* The names a directory listing may hold as subdirectories: EarthLord (the
\* project directory of the same name inside the root), a hidden directory
\* and Pods.
DirNames ==
    { Top, <<".", "g", "i", "t">>, Pods }

\* The names a directory listing may hold as files.
FileNames ==
    { <<"A", ".", "s", "w", "i", "f", "t">>,
      <<"B", ".", "s", "w", "i", "f", "t">>,
      <<"C", ".", "t", "x", "t">> }

\* The lines a file of the tree may hold: an indented line with two calls, each
\* with a Chinese character, and a call after a line-comment marker.
LineSamples ==
    { <<" ", " ", "T", "e", "x", "t", "(", "\"", "U+4F60", "\"", ")", " ",
        "L", "a", "b", "e", "l", "(", "\"", "U+597D", "\"", ")", "\n">>,
      <<"/", "/", " ", "T", "e", "x", "t", "(", "\"", "U+4F60", "U+597D", "\"", ")", "\n">> }

\* The sequences without repetition of elements of S: the orders a listing of
\* some of the names of S may come in (os.scandir promises no order).
Arrangements(S) ==
    { s \in UNION { [1..k -> S] : k \in 0..Cardinality(S) } :
        \A i, j \in 1..Len(s) : s[i] = s[j] => i = j }

DirListings == Arrangements(DirNames)
FileListings == Arrangements(FileNames)

\* The directory levels between the root and path
Depth(path) == Cardinality({ i \in 1..Len(path) : path[i] = "/" })

-----------------------------------------------------------------------------
(* The walk: for root, dirs, files in os.walk('EarthLord').                *)

\* A variant of KeepDir that forgets Pods
KeepDirHiddenOnly(d) == ~startswith(d, Dot)

\* The filter of dirs[:] = [d for d in dirs if ...]
KeepDir(d) == ~startswith(d, Dot) /\ d # Pods

Init ==
    /\ pc = "start"
    /\ stack = <<>>
    /\ root = <<>>
    /\ dirs = <<>>
    /\ files = <<>>
    /\ skipped = {}
    /\ nlisted = 0
    /\ file_path = <<>>
    /\ line_num = 0
    /\ content = <<>>
    /\ issues = <<>>
    /\ by_file = <<>>
    /\ out = <<>>

\* print of the banner, the call of find_untranslated_chinese, os.walk('EarthLord')
Start ==
    /\ pc = "start"
    /\ out' = << <<"banner">> >>
    /\ stack' = <<Top>>
    /\ pc' = "walk"
    /\ UNCHANGED <<root, dirs, files, skipped, nlisted, file_path, line_num,
                   content, issues, by_file>>

\* os.walk lists the next directory and yields (root, dirs, files).
WalkDir ==
    /\ pc = "walk"
    /\ stack # <<>>
    /\ \E ds \in DirListings, fs \in FileListings :
          /\ Depth(Head(stack)) < MaxDepth \/ ds = <<>>
          /\ nlisted + Len(fs) <= MaxFiles
          /\ root' = Head(stack)
          /\ dirs' = ds
          /\ files' = fs
          /\ nlisted' = nlisted + Len(fs)
    /\ stack' = Tail(stack)
    /\ pc' = "prune"
    /\ UNCHANGED <<skipped, file_path, line_num, content, issues, by_file, out>>

\* dirs[:] = [d for d in dirs if not d.startswith('.') and d != 'Pods'];
\* skipped keeps the names the filter removed from this listing.
Prune ==
    /\ pc = "prune"
    /\ dirs' = SelectSeq(dirs, KeepDir)
    /\ skipped' = { dirs[i] : i \in { j \in 1..Len(dirs) : ~KeepDir(dirs[j]) } }
    /\ pc' = "files"
    /\ UNCHANGED <<stack, root, files, nlisted, file_path, line_num, content,
                   issues, by_file, out>>

\* os.walk cannot list the directory (it is absent, or not readable): with no
\* onerror the error is dropped and the directory yields nothing.
WalkError ==
    /\ pc = "walk"
    /\ stack # <<>>
    /\ stack' = Tail(stack)
    /\ UNCHANGED <<pc, root, dirs, files, skipped, nlisted, file_path, line_num,
                   content, issues, by_file, out>>

\* The loop over files has ended: os.walk goes on with the subdirectories left
\* in dirs, in their order, before any directory it had still to visit.  root
\* and dirs are not read again before os.walk sets them anew: they are emptied,
\* and skipped with them.
Descend ==
    /\ pc = "files"
    /\ files = <<>>
    /\ stack' = [k \in 1..Len(dirs) |-> join(root, dirs[k])] \o stack
    /\ root' = <<>>
    /\ dirs' = <<>>
    /\ skipped' = {}
    /\ pc' = "walk"
    /\ UNCHANGED <<files, nlisted, file_path, line_num, content, issues,
                   by_file, out>>

\* if file.endswith('.swift') is false
SkipFile ==
    /\ pc = "files"
    /\ files # <<>>
    /\ ~endswith(Head(files), SwiftExt)
    /\ files' = Tail(files)
    /\ UNCHANGED <<pc, stack, root, dirs, skipped, nlisted, file_path, line_num,
                   content, issues, by_file, out>>

\* open(file_path, 'r', encoding='utf-8') succeeds
OpenFile ==
    /\ pc = "files"
    /\ files # <<>>
    /\ endswith(Head(files), SwiftExt)
    /\ file_path' = join(root, Head(files))
    /\ files' = Tail(files)
    /\ line_num' = 0
    /\ content' = <<>>
    /\ pc' = "lines"
    /\ UNCHANGED <<stack, root, dirs, skipped, nlisted, issues, by_file, out>>

\* open raises: control goes to the except clause
OpenFail ==
    /\ pc = "files"
    /\ files # <<>>
    /\ endswith(Head(files), SwiftExt)
    /\ file_path' = join(root, Head(files))
    /\ files' = Tail(files)
    /\ line_num' = 0
    /\ content' = <<>>
    /\ pc' = "except"
    /\ UNCHANGED <<stack, root, dirs, skipped, nlisted, issues,
                   by_file, out>>

\* enumerate(f, 1) gives the next line
ReadLine ==
    /\ pc = "lines"
    /\ Len(content) < MaxLines
    /\ \E l \in LineSamples : content' = Append(content, l)
    /\ line_num' = line_num + 1
    /\ pc' = "scan"
    /\ UNCHANGED <<stack, root, dirs, files, skipped, nlisted, file_path,
                   issues, by_file, out>>

\* A variant of AppendIssues that puts the new dicts first
PrependIssues(iss, new) == new \o iss

\* issues.append(..) for each of the dicts of a line, in their order
AppendIssues(iss, new) == iss \o new

\* The loop body for the line just read
ScanLine ==
    /\ pc = "scan"
    /\ issues' = AppendIssues(issues, LineIssues(file_path, line_num, content[line_num]))
    /\ pc' = "lines"
    /\ UNCHANGED <<stack, root, dirs, files, skipped, nlisted, file_path, line_num,
                   content, by_file, out>>

\* The file has no further line: the with block closes it.  content is the
\* lines read from the open file, and is empty when none is open; line_num is
\* not read again before enumerate sets it anew, and is put back to 0.
EndOfFile ==
    /\ pc = "lines"
    /\ content' = <<>>
    /\ line_num' = 0
    /\ pc' = "files"
    /\ UNCHANGED <<stack, root, dirs, files, skipped, nlisted, file_path, issues,
                   by_file, out>>

\* Reading or decoding the next lines raises (the file is decoded a block at a
\* time, so lines before the block were already given): control goes to the
\* except clause
ReadFail ==
    /\ pc = "lines"
    /\ content' = <<>>
    /\ line_num' = 0
    /\ pc' = "except"
    /\ UNCHANGED <<stack, root, dirs, files, skipped, nlisted, file_path, issues, by_file, out>>

\* except: pass, and the loop goes to the next file
ExceptPass ==
    /\ pc = "except"
    /\ pc' = "files"
    /\ UNCHANGED <<stack, root, dirs, files, skipped, nlisted, file_path, line_num,
                   content, issues, by_file, out>>

\* os.walk is exhausted: return issues
WalkDone ==
    /\ pc = "walk"
    /\ stack = <<>>
    /\ pc' = "report"
    /\ UNCHANGED <<stack, root, dirs, files, skipped, nlisted, file_path, line_num,
                   content, issues, by_file, out>>

-----------------------------------------------------------------------------
(* The report.  A printed line is modelled by what it shows:               *)
(* <<"banner">>, <<"count", n>>, <<"file", displayed path>>,               *)
(* <<"issue", line, component, text>> and <<"ok">>.                        *)

\* issue['file'].replace('EarthLord/', '')
DisplayPath(path) == replace(path, TopPrefix, <<>>)

\* A variant of GroupInto that sets by_file[file] = [issue] at each issue
RECURSIVE GroupIntoOverwrite(_, _)
GroupIntoOverwrite(acc, iss) ==
    IF iss = <<>> THEN acc
    ELSE LET file == DisplayPath(Head(iss).file)
             at   == { i \in 1..Len(acc) : acc[i][1] = file }
         IN  IF at = {}
             THEN GroupIntoOverwrite(Append(acc, <<file, <<Head(iss)>> >>), Tail(iss))
             ELSE LET i == CHOOSE i \in at : TRUE
                  IN  GroupIntoOverwrite([acc EXCEPT ![i] = <<file, <<Head(iss)>> >>],
                                         Tail(iss))

\* by_file after the loop over issues, given by_file before it: a dict is
\* modelled as the sequence of its (key, value) pairs in insertion order.
RECURSIVE GroupInto(_, _)
GroupInto(acc, iss) ==
    IF iss = <<>> THEN acc
    ELSE LET file == DisplayPath(Head(iss).file)
             at   == { i \in 1..Len(acc) : acc[i][1] = file }
         IN  IF at = {}
             THEN GroupInto(Append(acc, <<file, <<Head(iss)>> >>), Tail(iss))
             ELSE LET i == CHOOSE i \in at : TRUE
                  IN  GroupInto([acc EXCEPT ![i] = <<file, Append(acc[i][2], Head(iss))>>],
                                Tail(iss))

\* sorted(by_file.items()): the keys of a dict differ, so the keys alone order
\* the pairs.
RECURSIVE SortedItems(_)
SortedItems(items) ==
    IF items = <<>> THEN <<>>
    ELSE LET rest == SortedItems(Tail(items))
             k    == Cardinality({ i \in 1..Len(rest) : StrLess(rest[i][1], Head(items)[1]) })
         IN  SubSeq(rest, 1, k) \o <<Head(items)>> \o SubSeq(rest, k + 1, Len(rest))

\* The lines printed for one issue of a group
IssueLine(issue) == <<"issue", issue.line, issue.component, issue.text>>

\* The lines printed by the loop over the sorted groups
RECURSIVE PrintGroups(_)
PrintGroups(items) ==
    IF items = <<>> THEN <<>>
    ELSE << <<"file", Head(items)[1]>> >>
         \o [k \in 1..Len(Head(items)[2]) |-> IssueLine(Head(items)[2][k])]
         \o PrintGroups(Tail(items))

\* if issues: ... else: ...
Report ==
    /\ pc = "report"
    /\ IF issues # <<>>
       THEN /\ by_file' = GroupInto(<<>>, issues)
            /\ out' = out \o << <<"count", Len(issues)>> >>
                          \o PrintGroups(SortedItems(GroupInto(<<>>, issues)))
       ELSE /\ by_file' = by_file
            /\ out' = Append(out, <<"ok">>)
    /\ pc' = "done"
    /\ UNCHANGED <<stack, root, dirs, files, skipped, nlisted, file_path, line_num,
                   content, issues>>

Next ==
    \/ Start
    \/ WalkDir
    \/ Prune
    \/ WalkError
    \/ Descend
    \/ SkipFile
    \/ OpenFile
    \/ OpenFail
    \/ ReadLine
    \/ ScanLine
    \/ EndOfFile
    \/ ReadFail
    \/ ExceptPass
    \/ WalkDone
    \/ Report

Spec == Init /\ [][Next]_vars

-----------------------------------------------------------------------------
(* The loop body alone, on lines made of a few fragments each.             *)

\* The pieces a line is put together from.
LineFragments ==
    { <<"T", "e", "x", "t", "(", "\"">>,
      <<"T", "e", "x", "t", "F", "i", "e", "l", "d", " ", "(", " ", "\"">>,
      <<"L", "a", "b", "e", "l", "(", "\"">>,
      <<"U+4F60", "\"">>,
      <<"U+597D">>,
      <<"U+3042", "\"">>,
      <<"a">>,
      <<" ">>,
      <<"/", "/">>,
      <<"N", "S", "L", "o", "c", "a", "l", "i", "z", "e", "d", "S", "t", "r", "i", "n", "g", "(">> }

RECURSIVE Flatten(_)
Flatten(ss) == IF ss = <<>> THEN <<>> ELSE Head(ss) \o Flatten(Tail(ss))

\* The lines of at most MaxFrags fragments, each ended by its line break.
FragLines ==
    { Flatten(fs) \o <<"\n">> : fs \in UNION { [1..k -> LineFragments] : k \in 0..MaxFrags } }

\* The first line of EarthLord/A.swift has been read.
InitLine ==
    /\ pc = "scan"
    /\ stack = <<>>
    /\ root = Top
    /\ dirs = <<>>
    /\ files = <<>>
    /\ skipped = {}
    /\ nlisted = 1
    /\ file_path = join(Top, <<"A", ".", "s", "w", "i", "f", "t">>)
    /\ line_num = 1
    /\ content \in { <<l>> : l \in FragLines }
    /\ issues = <<>>
    /\ by_file = <<>>
    /\ out = << <<"banner">> >>

SpecLine == InitLine /\ [][ScanLine]_vars

-----------------------------------------------------------------------------
(* What the properties are stated with.  These say what a line holds       *)
(* without the program's own search: a call site is given by its positions.*)

\* The characters of the model's lines that lie in U+4E00..U+9FFF
Chinese == {"U+4F60", "U+597D"}

AllSpace(line, a, b) == \A x \in a..b : line[x] \in {" ", "\t", "\n", "\r"}

\* The trimmed line begins with '//'.
BeginsWithComment(line) ==
    \E k \in 1..(Len(line) - 1) :
        line[k] = "/" /\ line[k + 1] = "/" /\ AllSpace(line, 1, k - 1)

\* The line holds 'NSLocalizedString' somewhere.
HoldsMarker(line) ==
    \E i \in 1..Len(line) :
        /\ i + Len(NSLocalizedString) - 1 <= Len(line)
        /\ SubSeq(line, i, i + Len(NSLocalizedString) - 1) = NSLocalizedString

\* t is line without its leading and trailing white space.
IsTrimmed(line, t) ==
    /\ t = <<>> \/ (~AllSpace(t, 1, 1) /\ ~AllSpace(t, Len(t), Len(t)))
    /\ \E a \in 0..Len(line) :
          /\ a + Len(t) <= Len(line)
          /\ SubSeq(line, a + 1, a + Len(t)) = t
          /\ AllSpace(line, 1, a)
          /\ AllSpace(line, a + Len(t) + 1, Len(line))

\* The call sites of a line that start at i with the k-th component name, whose
\* parenthesis is at p and whose opening quote is at q: one for each closing
\* quote e with no quote but a Chinese character between q and e.
SitesClosing(line, i, k, q) ==
    { [start |-> i, stop |-> e, component |-> ComponentNames[k],
       text |-> SubSeq(line, q + 1, e - 1)] :
        e \in { e \in (q + 1)..Len(line) :
                  /\ line[e] = "\""
                  /\ \A x \in (q + 1)..(e - 1) : line[x] # "\""
                  /\ \E x \in (q + 1)..(e - 1) : line[x] \in Chinese } }

SitesQuoted(line, i, k, p) ==
    UNION { IF line[q] = "\"" /\ AllSpace(line, p + 1, q - 1)
            THEN SitesClosing(line, i, k, q) ELSE {} : q \in (p + 1)..Len(line) }

SitesNamed(line, i, k) ==
    LET a == i + Len(ComponentNames[k])
    IN  IF a - 1 <= Len(line) /\ SubSeq(line, i, a - 1) = ComponentNames[k]
        THEN UNION { IF line[p] = "(" /\ AllSpace(line, a, p - 1)
                     THEN SitesQuoted(line, i, k, p) ELSE {} : p \in a..Len(line) }
        ELSE {}

\* The qualifying call sites of a line: a component name, an opening
\* parenthesis and a quoted literal with a Chinese character in it.
CallSites(line) ==
    UNION { SitesNamed(line, i, k) : i \in 1..Len(line), k \in 1..Len(ComponentNames) }

\* The call sites taken from left to right, none overlapping the one before.
RECURSIVE LeftToRight(_, _)
LeftToRight(sites, pos) ==
    LET later == { s \in sites : s.start >= pos }
    IN  IF later = {} THEN <<>>
        ELSE LET s == CHOOSE s \in later : \A t \in later : s.start <= t.start
             IN  <<s>> \o LeftToRight(sites, s.stop + 1)

\* The Findings of line k of the file being read
FindingsOfLine(k) ==
    SelectSeq(issues, LAMBDA f : f.file = file_path /\ f.line = k)

\* A directory of the path has a name that starts with '.' or is Pods: the
\* name begins after a '/' and ends before the next one.
ThroughSkippedDir(path) ==
    \E i \in 1..Len(path) :
        /\ path[i] = "/"
        /\ \/ /\ i + 1 <= Len(path)
              /\ path[i + 1] = "."
              /\ \E j \in (i + 2)..Len(path) : path[j] = "/"
           \/ /\ i + Len(Pods) + 1 <= Len(path)
              /\ SubSeq(path, i + 1, i + Len(Pods) + 1) = Pods \o <<"/">>

\* The report: what is printed after the banner
Printed == SubSeq(out, 2, Len(out))

\* How often the line v is printed
TimesPrinted(v) == Cardinality({ k \in 1..Len(Printed) : Printed[k] = v })

\* The line the report shows a Finding as
Shown(f) == <<"issue", f.line, f.component, f.text>>

-----------------------------------------------------------------------------
(* The properties.                                                         *)

\* C1: a line that holds 'NSLocalizedString' anywhere gives no Finding, also
\* when it holds a qualifying call with a Chinese string.
C1_LocalizedLineGivesNoFinding ==
    \A k \in 1..Len(content) :
        HoldsMarker(content[k]) => FindingsOfLine(k) = <<>>

\* C1: a line with the marker and a qualifying call has been scanned.
C1_Witness ==
    /\ pc = "lines"
    /\ Len(content) = 1
    /\ HoldsMarker(content[1])
    /\ ~BeginsWithComment(content[1])
    /\ CallSites(content[1]) # {}

\* C2: a line whose trimmed content begins with '//' gives no Finding,
\* whatever else it holds.
C2_CommentLineGivesNoFinding ==
    \A k \in 1..Len(content) :
        BeginsWithComment(content[k]) => FindingsOfLine(k) = <<>>

\* C2: an indented comment line with a qualifying call and no marker has been
\* scanned.
C2_Witness ==
    /\ pc = "lines"
    /\ Len(content) = 1
    /\ BeginsWithComment(content[1])
    /\ content[1][1] = " "
    /\ ~HoldsMarker(content[1])
    /\ CallSites(content[1]) # {}

\* C5: a line that is no comment and holds no marker gives exactly one Finding
\* for each of its call sites taken left to right without overlap, in that
\* order, with the component name and the quoted text of the site.
C5_OneFindingPerCallSite ==
    \A k \in 1..Len(content) :
        (pc = "lines" \/ k < Len(content)) /\ ~BeginsWithComment(content[k])
                                           /\ ~HoldsMarker(content[k]) =>
            LET sites == LeftToRight(CallSites(content[k]), 1)
                found == FindingsOfLine(k)
            IN  /\ Len(found) = Len(sites)
                /\ \A n \in 1..Len(sites) :
                      /\ found[n].component = sites[n].component
                      /\ found[n].text = sites[n].text

\* C5: a line with two call sites has given two Findings, the left one first.
C5_Witness ==
    /\ pc = "lines"
    /\ Len(content) = 1
    /\ Cardinality(CallSites(content[1])) = 2
    /\ Len(issues) = 2
    /\ issues[1].component = ComponentNames[1]
    /\ issues[2].component = ComponentNames[2]

\* C3: a file whose reading failed, at open or part-way through its lines, has
\* no Finding in the list the scan returns.  The list only grows, so a Finding
\* of the file that is in it when the except clause runs is in it at the return.
C3_FailedFileIsOmitted ==
    pc = "except" =>
        \A i \in 1..Len(issues) : issues[i].file # file_path

\* C4: a directory whose name starts with '.' or is Pods is never descended
\* into: no Finding, no file opened and no directory walked or still to walk
\* has such a directory in its path.
C4_SkippedDirsNeverEntered ==
    /\ \A f \in { issues[i].file : i \in 1..Len(issues) } : ~ThroughSkippedDir(f)
    /\ ~ThroughSkippedDir(file_path)
    /\ ~ThroughSkippedDir(root \o <<"/">>)
    /\ \A k \in 1..Len(stack) : ~ThroughSkippedDir(stack[k] \o <<"/">>)

\* C4: a listing held a hidden directory and Pods, both were removed, and a
\* file of the directory has given Findings.
C4_Witness ==
    /\ pc = "lines"
    /\ skipped = {<<".", "g", "i", "t">>, Pods}
    /\ \E i \in 1..Len(issues) : issues[i].file = file_path

\* C6: each group of the report holds the Findings of one source file, is
\* shown under that file's path without its leading 'EarthLord/', and the
\* groups are printed in the lexicographic order of their paths.
C6_GroupsAreFilesInOrder ==
    pc = "done" =>
        /\ \A g \in 1..Len(by_file) :
              \A a \in 1..Len(by_file[g][2]) :
                 /\ by_file[g][2][a].file = by_file[g][2][1].file
                 /\ by_file[g][1] = SubSeq(by_file[g][2][a].file, Len(TopPrefix) + 1,
                                           Len(by_file[g][2][a].file))
        /\ \A k, m \in 1..Len(Printed) :
              (k < m /\ Printed[k][1] = "file" /\ Printed[m][1] = "file") =>
                  StrLess(Printed[k][2], Printed[m][2])

\* C7: within a group of the printed report the line numbers never decrease
\* from one Finding to the next.
C7_GroupLinesAscend ==
    pc = "done" =>
        \A k \in 1..(Len(Printed) - 1) :
            (Printed[k][1] = "issue" /\ Printed[k + 1][1] = "issue") =>
                Printed[k][2] <= Printed[k + 1][2]

\* C8: with no Finding the report is the success message alone; else it is a
\* count header with the number of Findings, then file headers and Findings
\* only, each Finding printed exactly once.
C8_ReportShape ==
    pc = "done" =>
        IF issues = <<>>
        THEN Printed = << <<"ok">> >>
        ELSE /\ Printed[1] = <<"count", Len(issues)>>
             /\ Len(Printed) >= 2 /\ Printed[2][1] = "file"
             /\ \A k \in 2..Len(Printed) : Printed[k][1] \in {"file", "issue"}
             /\ Cardinality({ k \in 1..Len(Printed) : Printed[k][1] = "issue" }) = Len(issues)
             /\ \A i \in 1..Len(issues) :
                   TimesPrinted(Shown(issues[i]))
                     = Cardinality({ j \in 1..Len(issues) : Shown(issues[j]) = Shown(issues[i]) })

\* C8: a report with a count header and two groups has been printed.
C8_Witness ==
    /\ pc = "done"
    /\ Len(issues) >= 3
    /\ Len(by_file) = 2
    /\ Printed[1] = <<"count", Len(issues)>>

\* C9: the Findings of one file are contiguous in issues (a Finding that has a
\* later one of its file is followed at once by one of its file), their line
\* numbers never decrease, and the Findings of the file being read come after
\* those of every file read before.
C9_TraversalOrder ==
    /\ \A i \in 1..(Len(issues) - 1) :
          /\ issues[i].file = issues[i + 1].file => issues[i].line <= issues[i + 1].line
          /\ (\E j \in (i + 1)..Len(issues) : issues[j].file = issues[i].file)
                => issues[i + 1].file = issues[i].file
    /\ pc \in {"lines", "scan"} =>
          \A i \in 1..(Len(issues) - 1) :
              issues[i].file = file_path => issues[i + 1].file = file_path

\* C9: a second file is being read after a first gave Findings, and has given
\* Findings on two lines.
C9_Witness ==
    /\ pc = "lines"
    /\ issues # <<>>
    /\ issues[1].file # file_path
    /\ \E i, j \in 1..Len(issues) :
          /\ issues[i].file = file_path /\ issues[j].file = file_path
          /\ issues[i].line < issues[j].line

\* C10: for every Finding of the file being read, line is the 1-based position
\* in that file of a line whose trimmed content is full_line and which holds
\* the call component("text" (white space allowed around the parenthesis), and
\* component is one of the seven names.
C10_FindingMatchesItsLine ==
    pc \in {"lines", "scan"} =>
        \A i \in 1..Len(issues) :
            issues[i].file = file_path =>
                /\ issues[i].line \in 1..Len(content)
                /\ IsTrimmed(content[issues[i].line], issues[i].full_line)
                /\ \E k \in 1..Len(ComponentNames), a \in 1..Len(content[issues[i].line]) :
                      /\ ComponentNames[k] = issues[i].component
                      /\ \E site \in SitesNamed(content[issues[i].line], a, k) :
                            site.text = issues[i].text

\* C10: the second line of a file has given a Finding after a first line that
\* gave none.
C10_Witness ==
    /\ pc = "lines"
    /\ Len(content) = 2
    /\ issues # <<>>
    /\ \A i \in 1..Len(issues) : issues[i].file = file_path /\ issues[i].line = 2

=============================================================================
